---- MODULE Spec2Model ----
(***************************************************************************)
(* State machine of app.py (Krzys Comm): the single-row `state` table, the *)
(* append-only `history` table, the global threading.Lock LOCK and the     *)
(* worker threads that run the storage functions and the HTTP handlers.    *)
(*                                                                         *)
(* A float is denoted by its Python repr ("-5.5", "36.6", "nan"); JSON     *)
(* text is a sequence of lexical tokens; a timestamp is the text produced  *)
(* by datetime.isoformat() + "Z" for a clock counted in ticks.             *)
(***************************************************************************)
EXTENDS Integers, Sequences, FiniteSets, TLC

(* ------------------------------ bounds -------------------------------- *)
NThreads == 2          \* worker threads
MaxClock == 1          \* the clock stops advancing at this tick
MaxHist  == 2          \* at most this many history INSERTs are started
MaxCalls == 2          \* at most this many calls are started after start-up, or
MaxSerialCalls == 3    \* this many when each starts after the one before has ended
ClockRes == 2          \* ticks per second (isoformat drops a zero fraction)

Threads == 1..NThreads
NoThread == 0

(* --------------------------- program values --------------------------- *)
SeedEnergy == 100
SeedHeartRate == 2
SeedTemperature == "-5.5"
SeedMood == "neutral"
EnergyMin == 0
EnergyMax == 100
HeartRateMin == 0
StateRowId == 1

Fields == {"energy", "heart_rate", "temperature", "mood"}
FieldOrder == <<"energy", "heart_rate", "temperature", "mood">>

(* ------------------------------- inputs ------------------------------- *)
\* Request bodies of POST /state: vals are the fields given a value, nulls
\* the fields given as JSON null.
Bodies ==
  { [vals |-> [energy |-> 50], nulls |-> {}],
    [vals |-> [mood |-> "happy"], nulls |-> {"energy"}],
    [vals |-> [temperature |-> "nan"], nulls |-> {}],
    [vals |-> [energy |-> 0 - 1], nulls |-> {}],
    [vals |-> [energy |-> 101, mood |-> "happy"], nulls |-> {}],
    [vals |-> [heart_rate |-> 0 - 1], nulls |-> {}],
    [vals |-> << >>, nulls |-> {}],
    [vals |-> << >>, nulls |-> {"energy", "mood"}] }

\* The message of POST /comm: it holds a quote and a backslash.
Messages == {"q\"\\"}
WhoCodes == {0, 1, 2}
\* An Optional argument is None or Some(v).
None == << >>
Some(v) == <<v>>
IsNone(o) == Len(o) = 0
Val(o) == o[1]
Limits == {None, Some(0 - 1), Some(0), Some(1)}
Kinds == {None, Some(""), Some("state"), Some("comm"), Some("other")}
TypeFilters == {None, Some(<< >>), Some(<<"state">>), Some(<<"state", "comm">>)}

(* ------------------------------- JSON --------------------------------- *)
IntKeys == {"energy", "heart_rate"}
FloatKeys == {"temperature"}
StrKeys == {"mood", "message"}
KeyOrder == <<"changed", "state", "energy", "heart_rate", "temperature", "mood", "message">>

\* The integers that occur in a request body or in the seed row.
IntUniverse ==
  {SeedEnergy, SeedHeartRate}
    \cup UNION {{b.vals[k] : k \in DOMAIN b.vals \cap IntKeys} : b \in Bodies}
FloatUniverse == {"-5.5", "nan"}

\* json.dumps of a str: a quote or a backslash is written after a backslash.
RECURSIVE EscapeFrom(_, _)
EscapeFrom(s, i) ==
  IF i > Len(s) THEN ""
  ELSE (IF SubSeq(s, i, i) \in {"\"", "\\"} THEN "\\" \o SubSeq(s, i, i) ELSE SubSeq(s, i, i))
       \o EscapeFrom(s, i + 1)
EscapeNothing(s) == s
Escape(s) == EscapeFrom(s, 1)
Quote(s) == "\"" \o Escape(s) \o "\""
FloatRepr(f) == IF f = "nan" THEN "NaN" ELSE f

RECURSIVE JsonDumps(_)
RECURSIVE DumpMembers(_, _)
DumpValue(k, v) ==
  IF k \in IntKeys THEN <<ToString(v)>>
  ELSE IF k \in FloatKeys THEN <<FloatRepr(v)>>
  ELSE IF k \in StrKeys THEN <<Quote(v)>>
  ELSE JsonDumps(v)
DumpMembers(d, ks) ==
  IF ks = << >> THEN << >>
  ELSE <<Quote(Head(ks)), ":">> \o DumpValue(Head(ks), d[Head(ks)])
       \o (IF Len(ks) > 1 THEN <<",">> ELSE << >>) \o DumpMembers(d, Tail(ks))
\* json.dumps of a dict: members in insertion order.
JsonDumps(d) ==
  <<"{">> \o DumpMembers(d, SelectSeq(KeyOrder, LAMBDA k : k \in DOMAIN d)) \o <<"}">>

\* The text from position i up to the closing quote of a JSON string token is
\* well formed: every backslash is followed by a quote or a backslash, and no
\* quote stands alone.
RECURSIVE WellEscaped(_, _)
WellEscaped(tok, i) ==
  IF i >= Len(tok) THEN i = Len(tok)
  ELSE IF SubSeq(tok, i, i) = "\\"
       THEN SubSeq(tok, i + 1, i + 1) \in {"\"", "\\"} /\ WellEscaped(tok, i + 2)
       ELSE SubSeq(tok, i, i) # "\"" /\ WellEscaped(tok, i + 1)
\* The str a well-formed token denotes from position i on: the character after
\* a backslash stands for itself.
RECURSIVE Unescape(_, _)
Unescape(tok, i) ==
  IF i >= Len(tok) THEN ""
  ELSE IF SubSeq(tok, i, i) = "\\" THEN SubSeq(tok, i + 1, i + 1) \o Unescape(tok, i + 2)
       ELSE SubSeq(tok, i, i) \o Unescape(tok, i + 1)
IsStrTok(tok) ==
  /\ Len(tok) >= 2
  /\ SubSeq(tok, 1, 1) = "\""
  /\ SubSeq(tok, Len(tok), Len(tok)) = "\""
  /\ WellEscaped(tok, 2)
Unquote(tok) == Unescape(tok, 2)
\* The number texts json.loads reads back, each with its value.
IntTexts == {<<ToString(n), n>> : n \in IntUniverse}
FloatTexts == {<<FloatRepr(f), f>> : f \in FloatUniverse}
IsIntTok(tok) == \E p \in IntTexts : p[1] = tok
IntOf(tok) == (CHOOSE p \in IntTexts : p[1] = tok)[2]
IsFloatTok(tok) == \E p \in FloatTexts : p[1] = tok
FloatOf(tok) == (CHOOSE p \in FloatTexts : p[1] = tok)[2]

ParseFail == [ok |-> FALSE, val |-> << >>, next |-> 0]
RECURSIVE ParseValue(_, _)
RECURSIVE ParseMembers(_, _, _)
ParseValue(toks, i) ==
  IF i > Len(toks) THEN ParseFail
  ELSE IF toks[i] = "{" THEN
    IF i + 1 <= Len(toks) /\ toks[i + 1] = "}"
    THEN [ok |-> TRUE, val |-> << >>, next |-> i + 2]
    ELSE ParseMembers(toks, i + 1, << >>)
  ELSE IF IsStrTok(toks[i]) THEN [ok |-> TRUE, val |-> Unquote(toks[i]), next |-> i + 1]
  ELSE IF IsIntTok(toks[i]) THEN [ok |-> TRUE, val |-> IntOf(toks[i]), next |-> i + 1]
  ELSE IF IsFloatTok(toks[i]) THEN [ok |-> TRUE, val |-> FloatOf(toks[i]), next |-> i + 1]
  ELSE ParseFail
ParseMembers(toks, i, acc) ==
  IF i + 2 > Len(toks) THEN ParseFail
  ELSE IF ~IsStrTok(toks[i]) \/ toks[i + 1] # ":" THEN ParseFail
  ELSE LET v == ParseValue(toks, i + 2)
           acc2 == (Unquote(toks[i]) :> v.val) @@ acc
       IN IF ~v.ok \/ v.next > Len(toks) THEN ParseFail
          ELSE IF toks[v.next] = "}" THEN [ok |-> TRUE, val |-> acc2, next |-> v.next + 1]
          ELSE IF toks[v.next] = "," THEN ParseMembers(toks, v.next + 1, acc2)
          ELSE ParseFail
\* json.loads: the parsed value, or a failure (the exception).
JsonLoads(text) ==
  LET r == ParseValue(text, 1)
  IN IF r.ok /\ r.next = Len(text) + 1 THEN [ok |-> TRUE, val |-> r.val]
     ELSE [ok |-> FALSE, val |-> << >>]

(* ------------------------------ the clock ----------------------------- *)
\* datetime.isoformat() + "Z": the fraction is omitted when it is zero.
IsoZ(t) ==
  ToString(t \div ClockRes)
  \o (IF t % ClockRes = 0 THEN "" ELSE "." \o ToString(t % ClockRes)) \o "Z"
\* The instant a timestamp text denotes.
TimeOf(s) == CHOOSE t \in 0..MaxClock : IsoZ(t) = s

(* ------------------------------- state -------------------------------- *)
VARIABLES
  now,          \* the clock read by datetime.utcnow(), in ticks
  lock,         \* LOCK: the thread holding it, or NoThread
  started,      \* the module-level init_db() call has returned
  tablesExist,  \* CREATE TABLE IF NOT EXISTS has run
  stateTbl,     \* committed rows of table state
  history,      \* committed rows of table history
  seq,          \* AUTOINCREMENT counter of table history
  dbWriter,     \* the thread whose connection has an open write transaction
  tx,           \* that transaction's uncommitted view, << >> when none
  pc,           \* each thread's position
  arg,          \* each thread's call arguments
  st,           \* update_state_in_db's local `state`
  ts,           \* each thread's local `ts`
  last,         \* how the latest call to end ended: what it answered or raised
  applied,      \* the change sets of the updates that returned, in return order
  appended,     \* who, content and returned ts of the appends that returned, in order
  calls,        \* calls started since start-up
  overlapped,   \* two update_state_in_db calls have been in progress at once
  serial        \* no call has started while another was in progress

vars == <<now, lock, started, tablesExist, stateTbl, history, seq, dbWriter, tx,
          pc, arg, st, ts, last, applied, appended, calls, overlapped, serial>>
dbVars == <<tablesExist, stateTbl, history, seq, dbWriter, tx>>
locals == <<arg, st, ts>>

NoVal == << >>

Committed == [state |-> stateTbl, hist |-> history, seq |-> seq]
\* What the connection of thread t reads.
View(t) == IF dbWriter = t THEN tx ELSE Committed
\* sqlite3 opens a transaction before a DML statement; SQLite admits one writer.
CanWrite(t) == dbWriter \in {NoThread, t}

LockFreeBroken == TRUE
LockFree == lock = NoThread
Idle(t) == pc[t] = "idle"
\* The worker threads are interchangeable: a call runs on the first idle one.
Picked(t) == Idle(t) /\ \A u \in Threads : u < t => ~Idle(u)

Init ==
  /\ now = 0
  /\ lock = NoThread
  /\ started = FALSE
  /\ tablesExist = FALSE
  /\ stateTbl = {}
  /\ history = {}
  /\ seq = 0
  /\ dbWriter = NoThread
  /\ tx = NoVal
  /\ pc = [t \in Threads |-> "idle"]
  /\ arg = [t \in Threads |-> NoVal]
  /\ st = [t \in Threads |-> NoVal]
  /\ ts = [t \in Threads |-> ""]
  /\ last = ""
  /\ applied = << >>
  /\ appended = << >>
  /\ calls = 0
  /\ overlapped = FALSE
  /\ serial = TRUE

Tick ==
  /\ now < MaxClock
  /\ now' = now + 1
  /\ UNCHANGED <<lock, started, dbVars, pc, locals, last, applied, appended, calls, overlapped,
                 serial>>

\* A call begins at label with arguments a.
Enter(t, label, a) ==
  /\ pc' = [pc EXCEPT ![t] = label]
  /\ arg' = [arg EXCEPT ![t] = a]
  /\ st' = [st EXCEPT ![t] = NoVal]
  /\ ts' = [ts EXCEPT ![t] = ""]

\* The positions inside update_state_in_db.
UpdatePcs == {"u_lock", "u_select", "u_update", "u_insert", "u_commit"}

AllIdle == \A u \in Threads : Idle(u)
\* The workload explored: any interleaving of MaxCalls calls, and MaxSerialCalls
\* calls made one after another.
Admitted == calls < MaxCalls \/ (serial /\ AllIdle /\ calls < MaxSerialCalls)

\* A request handler is entered and goes on to label.
Request(t, label, a) ==
  /\ started
  /\ Picked(t)
  /\ Admitted
  /\ calls' = calls + 1
  /\ Enter(t, label, a)
  /\ overlapped' = (overlapped \/ (label = "u_lock" /\ \E u \in Threads : pc[u] \in UpdatePcs))
  /\ serial' = (serial /\ AllIdle)
  /\ UNCHANGED <<now, lock, started, dbVars, last, applied, appended>>

\* A request is refused by its handler with an HTTP error.
Reject(t, code) ==
  /\ started
  /\ Picked(t)
  /\ Admitted
  /\ calls' = calls + 1
  /\ last' = code
  /\ UNCHANGED <<now, lock, started, dbVars, pc, locals, applied, appended, overlapped, serial>>

\* A call ends answering (or raising) code; its locals are gone.
Leave(t, code) ==
  /\ pc' = [pc EXCEPT ![t] = "idle"]
  /\ arg' = [arg EXCEPT ![t] = NoVal]
  /\ st' = [st EXCEPT ![t] = NoVal]
  /\ ts' = [ts EXCEPT ![t] = ""]
  /\ last' = code

\* `with LOCK:` entered.
Acquire(t, from, to) ==
  /\ pc[t] = from
  /\ LockFree
  /\ lock' = t
  /\ pc' = [pc EXCEPT ![t] = to]
  /\ UNCHANGED <<now, started, dbVars, locals, last, applied, appended, calls, overlapped,
                 serial>>

(* ------------------------------ init_db ------------------------------- *)
SeedRow(stamp) ==
  [id |-> StateRowId, energy |-> SeedEnergy, heart_rate |-> SeedHeartRate,
   temperature |-> SeedTemperature, mood |-> SeedMood, last_updated |-> stamp]

\* The module-level call runs alone, before any handler; later calls may come
\* from any thread.
StartInitDb(t) ==
  /\ Picked(t)
  /\ IF started THEN Admitted /\ calls' = calls + 1 /\ serial' = (serial /\ AllIdle)
     ELSE AllIdle /\ calls' = calls /\ serial' = serial
  /\ Enter(t, "i_lock", NoVal)
  /\ UNCHANGED <<now, lock, started, dbVars, last, applied, appended, overlapped>>

InitAcquire(t) == Acquire(t, "i_lock", "i_create")

\* CREATE TABLE IF NOT EXISTS state / history
InitCreate(t) ==
  /\ pc[t] = "i_create"
  /\ tablesExist' = TRUE
  /\ pc' = [pc EXCEPT ![t] = "i_count"]
  /\ UNCHANGED <<now, lock, started, stateTbl, history, seq, dbWriter, tx, locals, last,
                 applied, appended, calls, overlapped, serial>>

\* SELECT COUNT(*) FROM state = 0
StateIsEmptyAlways(rows) == TRUE
StateIsEmpty(rows) == Cardinality(rows) = 0

\* INSERT INTO state(id, ...) VALUES (1, ...)
SqlInsertState(rows, r) == rows \cup {r}

\* The table is empty: INSERT of the seed row, commit, commit, close.
InitSeed(t) ==
  /\ pc[t] = "i_count"
  /\ StateIsEmpty(View(t).state)
  /\ CanWrite(t)
  /\ stateTbl' = SqlInsertState(View(t).state, SeedRow(IsoZ(now)))
  /\ history' = View(t).hist
  /\ seq' = View(t).seq
  /\ dbWriter' = NoThread
  /\ tx' = NoVal
  /\ lock' = NoThread
  /\ started' = TRUE
  /\ Leave(t, "init:seeded")
  /\ UNCHANGED <<now, tablesExist, applied, appended, calls, overlapped, serial>>

\* The table has a row: commit, close.
InitSkip(t) ==
  /\ pc[t] = "i_count"
  /\ ~StateIsEmpty(View(t).state)
  /\ lock' = NoThread
  /\ started' = TRUE
  /\ Leave(t, "init:kept")
  /\ UNCHANGED <<now, dbVars, applied, appended, calls, overlapped, serial>>

(* -------------------------- get_state_from_db ------------------------- *)
\* GET /state
GetState(t) == Request(t, "g_lock", NoVal)

GetAcquire(t) == Acquire(t, "g_lock", "g_select")

\* SELECT ... FROM state WHERE id = 1; fetchone()
FetchStateRow(t) == {r \in View(t).state : r.id = StateRowId}

StateResponse(r) ==
  [energy |-> r.energy, heart_rate |-> r.heart_rate, temperature |-> r.temperature,
   mood |-> r.mood, updated_at |-> r.last_updated]

\* What get_state_from_db is about to return.
GetResult(t) == StateResponse(CHOOSE r \in FetchStateRow(t) : TRUE)

\* SELECT; conn.close(); raise if there is no row, else return it.
GetSelectKeepsLock(t) ==
  /\ pc[t] = "g_select"
  /\ Leave(t, IF FetchStateRow(t) = {} THEN "RuntimeError" ELSE "state")
  /\ UNCHANGED <<now, lock, started, dbVars, applied, appended, calls, overlapped, serial>>
GetSelectTouches(t) ==
  /\ pc[t] = "g_select"
  /\ lock' = NoThread
  /\ stateTbl' = {[r EXCEPT !.last_updated = IsoZ(now)] : r \in stateTbl}
  /\ Leave(t, IF FetchStateRow(t) = {} THEN "RuntimeError" ELSE "state")
  /\ UNCHANGED <<now, started, tablesExist, history, seq, dbWriter, tx, applied, appended,
                 calls, overlapped, serial>>
GetSelect(t) ==
  /\ pc[t] = "g_select"
  /\ lock' = NoThread
  /\ Leave(t, IF FetchStateRow(t) = {} THEN "RuntimeError" ELSE "state")
  /\ UNCHANGED <<now, started, dbVars, applied, appended, calls, overlapped, serial>>

(* ------------------------------ POST /state --------------------------- *)
\* Field(None, ge=0, le=100) and Field(None, ge=0) of StateUpdate.
ValidatesAnything(body) == TRUE
Validates(body) ==
  /\ "energy" \in DOMAIN body.vals =>
       body.vals.energy >= EnergyMin /\ body.vals.energy <= EnergyMax
  /\ "heart_rate" \in DOMAIN body.vals => body.vals.heart_rate >= HeartRateMin

\* payload.dict(exclude_none=True)
ExcludeNone(body) == body.vals

\* `if not changed`
IsEmptyDictNever(d) == FALSE
IsEmptyDict(d) == DOMAIN d = {}

\* History INSERTs begun and not yet finished.
Writing == {t \in Threads : pc[t] \in {"u_lock", "u_select", "u_update", "u_insert",
                                       "u_commit", "a_ts", "a_lock", "a_insert"}}
Budget == seq + Cardinality(Writing) < MaxHist

\* The request body fails validation: the handler body never runs.
PostStateInvalid(t) ==
  \E body \in Bodies :
    /\ ~Validates(body)
    /\ Reject(t, "422")

\* HTTPException(400) on an empty change set.
PostStateEmpty(t) ==
  \E body \in Bodies :
    /\ Validates(body)
    /\ IsEmptyDict(ExcludeNone(body))
    /\ Reject(t, "400:empty")

PostState(t) ==
  /\ Budget
  /\ \E body \in Bodies :
       /\ Validates(body)
       /\ ~IsEmptyDict(ExcludeNone(body))
       /\ Request(t, "u_lock", ExcludeNone(body))

(* -------------------------- update_state_in_db ------------------------ *)
UpdAcquire(t) == Acquire(t, "u_lock", "u_select")

\* state = {...row...}; state.update(changed)
Merge(r, changed) ==
  [f \in Fields |-> IF f \in DOMAIN changed THEN changed[f] ELSE r[f]]

\* SELECT; a missing row closes the connection and raises.
UpdSelect(t) ==
  /\ pc[t] = "u_select"
  /\ IF FetchStateRow(t) = {}
     THEN /\ lock' = NoThread
          /\ Leave(t, "RuntimeError")
     ELSE /\ st' = [st EXCEPT ![t] = Merge(CHOOSE r \in FetchStateRow(t) : TRUE, arg[t])]
          /\ pc' = [pc EXCEPT ![t] = "u_update"]
          /\ UNCHANGED <<lock, arg, ts, last>>
  /\ UNCHANGED <<now, started, dbVars, applied, appended, calls, overlapped, serial>>

\* sqlite3 binds a NaN float as NULL.
BindReal(f) == IF f = "nan" THEN "NULL" ELSE f
\* temperature REAL NOT NULL
NotNullFails(s) == BindReal(s.temperature) = "NULL"

UpdatedRow(s, stamp) ==
  [id |-> StateRowId, energy |-> s.energy, heart_rate |-> s.heart_rate,
   temperature |-> BindReal(s.temperature), mood |-> s.mood, last_updated |-> stamp]

\* UPDATE state SET ... WHERE id = 1
SqlUpdateStateNoMatch(rows, s, stamp) == rows
SqlUpdateStateInserts(rows, s, stamp) == rows \cup {UpdatedRow(s, stamp)}
SqlUpdateState(rows, s, stamp) ==
  {IF r.id = StateRowId THEN UpdatedRow(s, stamp) ELSE r : r \in rows}

\* ts = datetime.utcnow().isoformat() + "Z"
UpdStampBroken(clock) == IsoZ(0)
UpdStamp(clock) == IsoZ(clock)

\* ts = utcnow...; UPDATE.  A constraint failure raises out of `with LOCK`:
\* the lock is released, the connection is left open with its transaction.
UpdUpdate(t) ==
  /\ pc[t] = "u_update"
  /\ CanWrite(t)
  /\ ts' = [ts EXCEPT ![t] = UpdStamp(now)]
  /\ dbWriter' = t
  /\ IF NotNullFails(st[t])
     THEN /\ tx' = View(t)
          /\ lock' = NoThread
          /\ last' = "IntegrityError"
          /\ pc' = [pc EXCEPT ![t] = "u_exc"]
     ELSE /\ tx' = [View(t) EXCEPT !.state = SqlUpdateState(@, st[t], UpdStamp(now))]
          /\ pc' = [pc EXCEPT ![t] = "u_insert"]
          /\ UNCHANGED <<lock, last>>
  /\ UNCHANGED <<now, started, tablesExist, stateTbl, history, seq, arg, st, applied, appended,
                 calls, overlapped, serial>>

HistRow(id, type, who, content, stamp) ==
  [id |-> id, type |-> type, who |-> who, content |-> content, ts |-> stamp]

\* INSERT INTO history: AUTOINCREMENT assigns the next id.
SqlInsertHistoryNoSeq(v, type, who, content, stamp) ==
  [v EXCEPT !.hist = @ \cup {HistRow(v.seq + 1, type, who, content, stamp)}]
SqlInsertHistory(v, type, who, content, stamp) ==
  [v EXCEPT !.hist = @ \cup {HistRow(v.seq + 1, type, who, content, stamp)},
            !.seq = @ + 1]

\* rec_content = {"changed": changed, "state": state}
RecContentStateOnly(changed, s) == [state |-> s]
RecContent(changed, s) == [changed |-> changed, state |-> s]

UpdInsert(t) ==
  /\ pc[t] = "u_insert"
  /\ CanWrite(t)
  /\ dbWriter' = t
  /\ tx' = SqlInsertHistory(View(t), "state", None, JsonDumps(RecContent(arg[t], st[t])), ts[t])
  /\ pc' = [pc EXCEPT ![t] = "u_commit"]
  /\ UNCHANGED <<now, lock, started, tablesExist, stateTbl, history, seq, locals, last,
                 applied, appended, calls, overlapped, serial>>

\* The INSERT raises (sqlite3.OperationalError: the disk is full, an I/O error)
\* out of `with LOCK`: the lock is released, the connection is left open with
\* the UPDATE in its transaction.
UpdInsertFails(t) ==
  /\ pc[t] = "u_insert"
  /\ CanWrite(t)
  /\ lock' = NoThread
  /\ last' = "OperationalError"
  /\ pc' = [pc EXCEPT ![t] = "u_exc"]
  /\ UNCHANGED <<now, started, dbVars, locals, applied, appended, calls, overlapped, serial>>

\* return {**state, "updated_at": ts}
UpdResult(s, stamp) ==
  [energy |-> s.energy, heart_rate |-> s.heart_rate, temperature |-> s.temperature,
   mood |-> s.mood, updated_at |-> stamp]

\* conn.commit(); conn.close(); return; LOCK released.
UpdCommit(t) ==
  /\ pc[t] = "u_commit"
  /\ stateTbl' = View(t).state
  /\ history' = View(t).hist
  /\ seq' = View(t).seq
  /\ dbWriter' = IF dbWriter = t THEN NoThread ELSE dbWriter
  /\ tx' = IF dbWriter = t THEN NoVal ELSE tx
  /\ lock' = NoThread
  /\ applied' = Append(applied, arg[t])
  /\ Leave(t, "updated")
  /\ UNCHANGED <<now, started, tablesExist, appended, calls, overlapped, serial>>

\* Closing a connection with an open transaction rolls the transaction back.
CloseCommits(committed, open) == open
CloseRollsBack(committed, open) == committed

\* The abandoned connection is reclaimed: sqlite3 closes it.
Finalize(t) ==
  /\ pc[t] = "u_exc"
  /\ LET v == IF dbWriter = t THEN CloseRollsBack(Committed, tx) ELSE Committed
     IN /\ stateTbl' = v.state
        /\ history' = v.hist
        /\ seq' = v.seq
  /\ dbWriter' = IF dbWriter = t THEN NoThread ELSE dbWriter
  /\ tx' = IF dbWriter = t THEN NoVal ELSE tx
  /\ pc' = [pc EXCEPT ![t] = "idle"]
  /\ arg' = [arg EXCEPT ![t] = NoVal]
  /\ st' = [st EXCEPT ![t] = NoVal]
  /\ ts' = [ts EXCEPT ![t] = ""]
  /\ UNCHANGED <<now, lock, started, tablesExist, last, applied, appended, calls, overlapped,
                 serial>>

(* ------------------------------ POST /comm ---------------------------- *)
WhoStr(who) == IF who = 0 THEN "krzys" ELSE "user"

\* who in (0, 1)
WhoValidAlways(who) == TRUE
WhoValid(who) == who \in {0, 1}

\* HTTPException(400) when who is neither 0 nor 1.
PostCommInvalid(t) ==
  \E who \in WhoCodes :
    /\ ~WhoValid(who)
    /\ Reject(t, "400:who")

\* who_str and the content are passed to append_history_record; code is the
\* handler's who.
PostComm(t) ==
  /\ Budget
  /\ \E who \in WhoCodes, m \in Messages :
       /\ WhoValid(who)
       /\ Request(t, "a_ts", [type |-> "comm", who |-> WhoStr(who),
                              content |-> [message |-> m], code |-> who])

(* ------------------------ append_history_record ----------------------- *)
\* ts = utcnow..., before LOCK is taken.
AppendTs(t) ==
  /\ pc[t] = "a_ts"
  /\ ts' = [ts EXCEPT ![t] = IsoZ(now)]
  /\ pc' = [pc EXCEPT ![t] = "a_lock"]
  /\ UNCHANGED <<now, lock, started, dbVars, arg, st, last, applied, appended, calls,
                 overlapped, serial>>

AppendAcquire(t) == Acquire(t, "a_lock", "a_insert")

\* What POST /comm is about to answer.
CommResult(t) == [status |-> "saved", who |-> arg[t].who, ts |-> ts[t]]

\* INSERT; conn.commit(); conn.close(); LOCK released; return ts.
AppendInsert(t) ==
  /\ pc[t] = "a_insert"
  /\ CanWrite(t)
  /\ LET v == SqlInsertHistory(View(t), arg[t].type, Some(arg[t].who),
                               JsonDumps(arg[t].content), ts[t])
     IN /\ stateTbl' = v.state
        /\ history' = v.hist
        /\ seq' = v.seq
  /\ dbWriter' = NoThread
  /\ tx' = NoVal
  /\ lock' = NoThread
  /\ appended' = Append(appended, [who |-> arg[t].who, content |-> arg[t].content,
                                   ts |-> CommResult(t).ts])
  /\ Leave(t, "saved")
  /\ UNCHANGED <<now, started, tablesExist, applied, calls, overlapped, serial>>

(* ------------------------------ GET /history -------------------------- *)
\* `if kind:` is false for None and for the empty string.
KindGiven(kind) == ~IsNone(kind) /\ Val(kind) # ""
KindTypes(kind) == IF KindGiven(kind) THEN Some(<<Val(kind)>>) ELSE None

\* HTTPException(400) on an unknown kind.
GetHistoryInvalid(t) ==
  \E kind \in Kinds :
    /\ KindGiven(kind)
    /\ Val(kind) \notin {"state", "comm"}
    /\ Reject(t, "400:kind")

\* GET /history with this kind is not refused and goes on to read_history.
GetHistoryWith(t, kind) ==
  /\ KindGiven(kind) => Val(kind) \in {"state", "comm"}
  /\ Request(t, "r_lock", [http |-> TRUE])
GetHistory(t) == \E kind \in Kinds : GetHistoryWith(t, kind)

\* read_history called as a function.
CallReadHistory(t) == Request(t, "r_lock", [http |-> FALSE])

\* The (limit, types) the call with arguments a may carry: the handler passes
\* [kind] or None for a kind it does not refuse.
ReadInputs(a) ==
  IF a.http
  THEN {[limit |-> l, types |-> KindTypes(k)] :
          l \in Limits, k \in {k \in Kinds : KindGiven(k) => Val(k) \in {"state", "comm"}}}
  ELSE {[limit |-> l, types |-> ty] : l \in Limits, ty \in TypeFilters}

(* ----------------------------- read_history --------------------------- *)
ReadEntersUnlocked(t) ==
  /\ pc[t] = "r_lock"
  /\ pc' = [pc EXCEPT ![t] = "r_query"]
  /\ UNCHANGED <<now, lock, started, dbVars, locals, last, applied, appended, calls,
                 overlapped, serial>>
ReadAcquire(t) == Acquire(t, "r_lock", "r_query")

Range(f) == {f[i] : i \in DOMAIN f}
\* `if types:` is false for None and for the empty list.
TypesGiven(types) == ~IsNone(types) /\ Val(types) # << >>
\* `if limit:` is false for None and for 0.
LimitGivenIfNotNone(limit) == ~IsNone(limit)
LimitGiven(limit) == ~IsNone(limit) /\ Val(limit) # 0

\* WHERE type IN (...)
SqlWhereType(rows, types) == {r \in rows : r.type \in Range(types)}

\* ORDER BY id DESC
RECURSIVE SqlOrderByIdDesc(_)
SqlOrderByIdDesc(rows) ==
  IF rows = {} THEN << >>
  ELSE LET top == CHOOSE r \in rows : \A q \in rows : q.id <= r.id
       IN <<top>> \o SqlOrderByIdDesc(rows \ {top})

\* LIMIT n: a negative n is no limit.
SqlLimit(rs, n) ==
  IF n < 0 \/ n >= Len(rs) THEN rs ELSE SubSeq(rs, 1, n)

SelectHistory(rows, limit, types) ==
  LET filtered == IF TypesGiven(types) THEN SqlWhereType(rows, Val(types)) ELSE rows
      ordered == SqlOrderByIdDesc(filtered)
  IN IF LimitGiven(limit) THEN SqlLimit(ordered, Val(limit)) ELSE ordered

\* json.loads, or {"raw": text} when it raises.
ParseContentNoFallback(text) == JsonLoads(text).val
ParseContent(text) ==
  LET r == JsonLoads(text) IN IF r.ok THEN r.val ELSE [raw |-> text]

OutItem(r) ==
  [id |-> r.id, type |-> r.type, who |-> r.who, content |-> ParseContent(r.content), ts |-> r.ts]

\* read_history's result for the rows it fetched: `for r in rows: out.append`.
RECURSIVE ReadOut(_)
ReadOut(rs) == IF rs = << >> THEN << >> ELSE <<OutItem(Head(rs))>> \o ReadOut(Tail(rs))

\* What read_history returns for arguments a.
ReadResult(t, a) == ReadOut(SelectHistory(View(t).hist, a.limit, a.types))

\* execute; fetchall(); conn.close(); LOCK released; the rows are parsed and
\* returned.  Neither limit nor types is assigned or changes what is stored, so
\* the step is the same for every a of ReadInputs and returns ReadResult(t, a).
ReadQuery(t) ==
  /\ pc[t] = "r_query"
  /\ lock' = NoThread
  /\ Leave(t, "history")
  /\ UNCHANGED <<now, started, dbVars, applied, appended, calls, overlapped, serial>>

(* --------------------------- the specification ------------------------ *)
Next ==
  \/ Tick
  \/ \E t \in Threads :
       \/ StartInitDb(t) \/ InitAcquire(t) \/ InitCreate(t) \/ InitSeed(t) \/ InitSkip(t)
       \/ GetState(t) \/ GetAcquire(t) \/ GetSelect(t)
       \/ PostStateInvalid(t) \/ PostStateEmpty(t) \/ PostState(t)
       \/ UpdAcquire(t) \/ UpdSelect(t) \/ UpdUpdate(t) \/ UpdInsert(t) \/ UpdInsertFails(t)
       \/ UpdCommit(t)
       \/ Finalize(t)
       \/ PostCommInvalid(t) \/ PostComm(t)
       \/ AppendTs(t) \/ AppendAcquire(t) \/ AppendInsert(t)
       \/ GetHistoryInvalid(t) \/ GetHistory(t) \/ CallReadHistory(t)
       \/ ReadAcquire(t) \/ ReadQuery(t)

Spec == Init /\ [][Next]_vars

\* A content text json.loads raises on: a truncated object.
CorruptText == <<"{">>
\* The database file found at start-up: written by another tool, it has both
\* tables, no state row yet, and one history row whose content is not JSON.
StoredFiles ==
  { [tables |-> TRUE, state |-> {},
     hist |-> {[id |-> 1, type |-> "comm", who |-> Some("user"), content |-> CorruptText,
                ts |-> IsoZ(0)]},
     seq |-> 1] }
StoredInit ==
  /\ \E f \in StoredFiles :
       /\ tablesExist = f.tables
       /\ stateTbl = f.state
       /\ history = f.hist
       /\ seq = f.seq
  /\ now = 0
  /\ lock = NoThread
  /\ started = FALSE
  /\ dbWriter = NoThread
  /\ tx = NoVal
  /\ pc = [t \in Threads |-> "idle"]
  /\ arg = [t \in Threads |-> NoVal]
  /\ st = [t \in Threads |-> NoVal]
  /\ ts = [t \in Threads |-> ""]
  /\ last = ""
  /\ applied = << >>
  /\ appended = << >>
  /\ calls = 0
  /\ overlapped = FALSE
  /\ serial = TRUE
\* The application started on a database file that may already exist.
StoredSpec == StoredInit /\ [][Next]_vars

\* The steps in which thread t takes LOCK (`with LOCK:`).
LockSteps(t) ==
  \/ InitAcquire(t) \/ GetAcquire(t) \/ UpdAcquire(t) \/ AppendAcquire(t) \/ ReadAcquire(t)
\* The steps a thread takes on its own once its call is under way; the failure
\* of the INSERT is the environment's and is never forced.
RunSteps(t) ==
  \/ InitCreate(t) \/ InitSeed(t) \/ InitSkip(t)
  \/ GetSelect(t)
  \/ UpdSelect(t) \/ UpdUpdate(t) \/ UpdInsert(t) \/ UpdCommit(t) \/ Finalize(t)
  \/ AppendTs(t) \/ AppendInsert(t)
  \/ ReadQuery(t)
\* Every thread keeps running: the interpreter schedules each runnable thread,
\* and a thread waiting for a LOCK that stays free gets it. Fair lock
\* acquisition, which also serves a thread that finds LOCK free again and again,
\* implies this condition.
FairSpec == Spec /\ \A t \in Threads : WF_vars(RunSteps(t) \/ LockSteps(t))

(* ------------------------------- claims ------------------------------- *)
StateEntries == {r \in history : r.type = "state"}
\* The k-th state entry in insertion (id) order.
NthStateEntry(k) ==
  CHOOSE r \in StateEntries : Cardinality({q \in StateEntries : q.id <= r.id}) = k
RecordFields(r) == [f \in Fields |-> r[f]]
CurrentRow == CHOOSE r \in stateTbl : r.id = StateRowId
Perms(n) == {p \in [1..n -> 1..n] : \A i, j \in 1..n : p[i] = p[j] => i = j}
\* The record after the first k change sets of order are applied one after another.
RECURSIVE SerialState(_, _, _)
SerialState(s0, order, k) ==
  IF k = 0 THEN s0 ELSE Merge(SerialState(s0, order, k - 1), order[k])
NoUpdateRunning == \A t \in Threads : pc[t] \notin UpdatePcs
\* The parsed contents of the first k state entries, in id order.
RECURSIVE StateContents(_)
StateContents(k) ==
  IF k = 0 THEN << >>
  ELSE Append(StateContents(k - 1), ParseContent(NthStateEntry(k).content))

\* C1: once every update_state_in_db call that was started has returned, the
\* history holds exactly one 'state' entry per call, and for some serial order
\* of the calls every entry's content (changed, state snapshot) and the final
\* StatusRecord are what running the calls one after another in that order from
\* the seeded store produces.
C1_SerialOutcome ==
  (started /\ NoUpdateRunning) =>
    LET n == Len(applied)
        s0 == RecordFields(SeedRow(""))
        entry == StateContents(n)
    IN /\ Cardinality(StateEntries) = n
       /\ \E p \in Perms(n) :
            LET order == [k \in 1..n |-> applied[p[k]]]
            IN /\ \A k \in 1..n :
                    /\ entry[k].state = SerialState(s0, order, k)
                    /\ entry[k].changed = order[k]
               /\ RecordFields(CurrentRow) = SerialState(s0, order, n)
C1_Witness ==
  /\ NoUpdateRunning
  /\ overlapped
  /\ Len(applied) = 2
  /\ applied[1] # applied[2]
  /\ Cardinality(StateEntries) = 2

\* The newest 'state' entry among rows.
NewestState(rows) ==
  CHOOSE r \in rows : r.type = "state" /\ \A q \in rows : q.type = "state" => q.id <= r.id
\* A view in which the record and the newest state entry belong to the same update.
RecordMatchesEntry(v) ==
  LET e == NewestState(v.hist)
      r == CHOOSE x \in v.state : x.id = StateRowId
  IN /\ ParseContent(e.content).state = RecordFields(r)
     /\ e.ts = r.last_updated
UpdateHoldsLock == \E t \in Threads : lock = t /\ pc[t] \in UpdatePcs

\* C2: whenever LOCK is not held by an update, what any thread outside an
\* update (and not in a call that raised) reads is consistent: if a 'state'
\* entry exists, the newest one has content.state equal to the record's four
\* fields and ts equal to its last_updated.
C2_RecordAndEntryTogether ==
  (started /\ ~UpdateHoldsLock) =>
    \A v \in {View(u) : u \in {t \in Threads : pc[t] \notin UpdatePcs \cup {"u_exc"}}} :
      (\E r \in v.hist : r.type = "state") => RecordMatchesEntry(v)
\* A read that overlapped an update holds LOCK after the update has committed.
C2_Witness ==
  /\ ~UpdateHoldsLock
  /\ ~serial
  /\ \E u \in Threads : pc[u] = "r_query" /\ lock = u
  /\ StateEntries # {}
  /\ CurrentRow.mood = "happy"

\* The step in which thread t leaves update_state_in_db.
UpdEnds(t) == pc[t] \in UpdatePcs /\ pc'[t] \notin UpdatePcs
\* C3 (as claimed): every update_state_in_db call with a valid non-empty change
\* set, unless the storage itself fails, ends with every field outside the
\* change set as it was, every field of the change set stored with the supplied
\* value, and the stored record returned.
C3_UpdateSetsAndReturns ==
  [][\A t \in Threads : (UpdEnds(t) /\ last' # "OperationalError") =>
       /\ last' = "updated"
       /\ \A f \in Fields :
            CurrentRow'[f] = (IF f \in DOMAIN arg[t] THEN arg[t][f] ELSE CurrentRow[f])
       /\ UpdResult(st[t], ts[t]) = StateResponse(CurrentRow')]_vars

\* C4: with a clock that never goes backwards, the instant of the record's
\* last_updated never decreases from one state to the next.
C4_UpdatedAtMonotone ==
  [][(stateTbl # {} /\ stateTbl' # {}) =>
       TimeOf(CurrentRow'.last_updated) >= TimeOf(CurrentRow.last_updated)]_vars
C4_Witness ==
  /\ started
  /\ TimeOf(CurrentRow.last_updated) = 1
  /\ StateEntries # {}
  /\ \E r \in history : TimeOf(r.ts) = 0

InRange(r) ==
  /\ r.energy >= EnergyMin /\ r.energy <= EnergyMax
  /\ r.heart_rate >= HeartRateMin
\* C5: the stored energy is always in [0,100] and the stored heart_rate >= 0,
\* no update in progress carries an out-of-range value, and a request rejected
\* by validation answers 422 and leaves the state table and the history as
\* they were.
C5_RangeEnforced ==
  /\ [](\A r \in stateTbl : InRange(r))
  /\ [](\A t \in Threads : pc[t] \in {"u_update", "u_insert", "u_commit"} => InRange(st[t]))
  /\ [][\A t \in Threads : PostStateInvalid(t) =>
          last' = "422" /\ UNCHANGED <<stateTbl, history, seq, tx>>]_vars
C5_Witness ==
  /\ last = "422"
  /\ StateEntries # {}
  /\ CurrentRow.energy = 50

\* C6: POST /state with an empty change set answers 400 in the step that
\* receives it and changes neither table; update_state_in_db never runs with an
\* empty change set and no 'state' entry records one.
C6_EmptyChangeRejected ==
  /\ [](\A t \in Threads : pc[t] \in UpdatePcs => DOMAIN arg[t] # {})
  /\ [](\A r \in StateEntries : DOMAIN ParseContent(r.content).changed # {})
  /\ [][\A t \in Threads : PostStateEmpty(t) =>
          last' = "400:empty" /\ pc'[t] = "idle" /\ UNCHANGED <<stateTbl, history, seq, tx, lock>>]_vars
C6_Witness ==
  /\ last = "400:empty"
  /\ StateEntries # {}

InitPcs == {"i_lock", "i_create", "i_count"}
\* C7: every step of an init_db call made after start-up leaves the state table
\* (one row, all five fields) and the history exactly as they were.
C7_InitIdempotent ==
  [][\A t \in Threads : (started /\ pc[t] \in InitPcs /\ pc'[t] # pc[t]) =>
       /\ stateTbl' = stateTbl
       /\ history' = history
       /\ Cardinality(stateTbl') = 1]_vars
\* The latest answer is that of an init_db that found the updated row.
C7_Witness ==
  /\ last = "init:kept"
  /\ Len(applied) = 1
  /\ CurrentRow.energy = 50
  /\ \E r \in history : r.type = "comm"

\* C8: once the first init_db has returned, the state table, committed or as
\* seen inside a transaction, holds exactly one row and its id is 1; the step
\* that completes the first init_db leaves energy=100, heart_rate=2,
\* temperature=-5.5, mood='neutral' and an empty history.
C8_SingleRow ==
  /\ [](started => \A t \in Threads :
          Cardinality(View(t).state) = 1 /\ \A r \in View(t).state : r.id = 1)
  /\ [][(~started /\ started') =>
          /\ RecordFields(CurrentRow') =
               [energy |-> 100, heart_rate |-> 2, temperature |-> "-5.5", mood |-> "neutral"]
          /\ history' = {}]_vars
C8_Witness ==
  /\ started
  /\ Cardinality(stateTbl) = 1
  /\ Len(applied) = 2
  /\ last = "init:kept"

\* C9: every step keeps each history row as it was and gives each new row an
\* id greater than every id present before; ids are unique.
C9_AppendOnly ==
  /\ [](\A r, q \in history : r.id = q.id => r = q)
  /\ [][/\ history \subseteq history'
        /\ \A r \in history' \ history : \A q \in history : r.id > q.id]_vars
C9_Witness ==
  /\ Cardinality(history) = 2
  /\ \E r \in history : r.type = "state" /\ r.id = 2
  /\ \E r \in history : r.type = "comm" /\ r.id = 1

\* res is what a query for (limit, types) over rows must return: the matching
\* rows, newest id first, cut to the first `limit` when limit is positive.
MeetsQuery(res, rows, limit, types, emptyIsNoFilter) ==
  LET noFilter == IF IsNone(types) THEN TRUE ELSE emptyIsNoFilter /\ Len(Val(types)) = 0
      match == IF noFilter THEN rows
               ELSE {r \in rows : \E i \in 1..Len(Val(types)) : Val(types)[i] = r.type}
      n == Cardinality(match)
      cut == IF IsNone(limit) THEN FALSE ELSE Val(limit) > 0 /\ Val(limit) < n
      want == IF cut THEN Val(limit) ELSE n
  IN /\ Len(res) = want
     /\ \A i \in 1..Len(res) : \E r \in match :
          /\ r.id = res[i].id
          /\ res[i] = [id |-> r.id, type |-> r.type, who |-> r.who,
                       content |-> ParseContent(r.content), ts |-> r.ts]
     /\ \A i, j \in 1..Len(res) : i < j => res[i].id > res[j].id
     /\ \A r \in match : (\A i \in 1..Len(res) : res[i].id # r.id) =>
          \A i \in 1..Len(res) : r.id < res[i].id

\* C10 (amended): read_history returns the entries whose type is in the filter,
\* or all entries when the filter is None or the empty list, by id strictly
\* descending, cut to the first `limit` when limit is positive and not cut when
\* limit is None, zero or negative.
C10_ReadHistoryResult ==
  \A t \in Threads : pc[t] = "r_query" =>
    \A a \in ReadInputs(arg[t]) :
      MeetsQuery(ReadResult(t, a), View(t).hist, a.limit, a.types, TRUE)
\* C10 as stated: every entry is returned only when no filter is given.
C10_AsClaimed ==
  \A t \in Threads : pc[t] = "r_query" =>
    \A a \in ReadInputs(arg[t]) :
      MeetsQuery(ReadResult(t, a), View(t).hist, a.limit, a.types, FALSE)
\* read_history(limit=1, types=[]) is about to return the newer of two entries.
C10_Witness ==
  \E t \in Threads :
    /\ pc[t] = "r_query"
    /\ [limit |-> Some(1), types |-> Some(<< >>)] \in ReadInputs(arg[t])
    /\ Len(ReadResult(t, [limit |-> Some(1), types |-> Some(<< >>)])) = 1
    /\ Cardinality(history) = 2
    /\ \E r \in history : r.type = "state"
    /\ \E r \in history : r.type = "comm"

\* The arguments of read_history(limit=1, types=['comm']).
NewestComm == [limit |-> Some(1), types |-> Some(<<"comm">>)]
\* C11: a read_history(limit=1, types=['comm']) that follows an append, no
\* other append having committed since, returns exactly one entry: its content
\* is the {message: m} that was appended, its who the label supplied and its ts
\* the timestamp the append returned.
C11_CommRoundTrip ==
  \A t \in Threads : (pc[t] = "r_query" /\ Len(appended) > 0) =>
    LET res == ReadResult(t, NewestComm)
        sent == appended[Len(appended)]
    IN /\ Len(res) = 1
       /\ res[1].type = "comm"
       /\ res[1].content = sent.content
       /\ res[1].who = Some(sent.who)
       /\ res[1].ts = sent.ts
\* The message with a quote and a backslash was appended, a state entry was
\* written after it, and a read holds LOCK.
C11_Witness ==
  \E t \in Threads :
    /\ pc[t] = "r_query"
    /\ NewestComm \in ReadInputs(arg[t])
    /\ Len(appended) = 1
    /\ appended[1].content.message = "q\"\\"
    /\ \E r, q \in history : r.type = "comm" /\ q.type = "state" /\ r.id < q.id

\* C12 (as claimed): GET /history never goes on to read_history with a supplied
\* kind other than 'state' and 'comm', the empty string included: it is answered
\* 400 and reads nothing.
C12_KindRejected ==
  [][\A t \in Threads : \A kind \in Kinds :
       (~IsNone(kind) /\ Val(kind) \notin {"state", "comm"}) => ~GetHistoryWith(t, kind)]_vars

\* The step in which POST /comm returns.
CommEnds(t) == pc[t] = "a_insert" /\ pc'[t] = "idle"
\* C13: POST /comm with who outside {0, 1} is answered 400 and appends nothing;
\* only who = 0 or 1 reaches append_history_record, and the call then appends
\* exactly one entry, of type 'comm', with who 'krzys' for 0 and 'user' for 1
\* and content {message}, and answers with that label and the entry's ts.
C13_CommWho ==
  [][\A t \in Threads :
       /\ PostCommInvalid(t) =>
            last' = "400:who" /\ pc'[t] = "idle" /\ UNCHANGED <<stateTbl, history, seq, tx>>
       /\ pc[t] = "idle" /\ pc'[t] = "a_ts" => arg'[t].code \in {0, 1}
       /\ CommEnds(t) =>
            \E r \in history' :
              /\ history' = history \cup {r} /\ r \notin history
              /\ r.type = "comm"
              /\ r.who = Some(IF arg[t].code = 0 THEN "krzys" ELSE "user")
              /\ ParseContent(r.content) = [message |-> arg[t].content.message]
              /\ last' = "saved"
              /\ CommResult(t).who = Val(r.who)
              /\ CommResult(t).ts = r.ts]_vars
\* A request with who = 2 was refused after 'krzys' had appended a message.
C13_Witness ==
  /\ last = "400:who"
  /\ Len(appended) = 1
  /\ \E r \in history : r.type = "comm" /\ r.who = Some("krzys")

\* The history rows of every view: the committed ones and those of the open
\* transaction.
AllEntries == history \cup (IF tx = NoVal THEN {} ELSE tx.hist)
\* C14: every history entry has type 'state' or 'comm'; a 'state' entry has a
\* null who and content of the shape {changed, state}; a 'comm' entry has who
\* 'krzys' or 'user' and content of the shape {message}.
C14_EntryShapes ==
  \A r \in AllEntries :
    /\ r.type \in {"state", "comm"}
    /\ r.type = "state" =>
         IsNone(r.who) /\ DOMAIN ParseContent(r.content) = {"changed", "state"}
    /\ r.type = "comm" =>
         /\ ~IsNone(r.who)
         /\ Val(r.who) \in {"krzys", "user"}
         /\ DOMAIN ParseContent(r.content) = {"message"}
\* Both kinds of entry are stored.
C14_Witness ==
  /\ \E r \in history : r.type = "state" /\ IsNone(r.who)
  /\ \E r \in history : r.type = "comm" /\ r.who = Some("krzys")

\* The step in which the update of thread t raises after its UPDATE.
UpdFailsAfterUpdate(t) == pc[t] = "u_insert" /\ pc'[t] = "u_exc"
\* The threads that can still read: all but those whose call raised and whose
\* connection is not reclaimed yet.
Observers == {u \in Threads : pc[u] # "u_exc"}
\* C15: the step in which an update raises after its UPDATE releases LOCK and
\* leaves the committed record and history as they were; no thread that can
\* still read sees the uncommitted UPDATE; reclaiming the connection discards
\* it; and every step either leaves record and 'state' entries alone or commits
\* a record together with the one 'state' entry that carries it.
C15_FailedUpdateInvisible ==
  /\ [][\A t \in Threads : UpdFailsAfterUpdate(t) =>
          /\ lock = t /\ lock' = NoThread
          /\ UNCHANGED <<stateTbl, history, seq>>]_vars
  /\ [](\A t \in Threads : pc[t] = "u_exc" =>
          \A u \in Observers \ {t} : lock \in {NoThread, u} => View(u) = Committed)
  /\ [][\A t \in Threads : (pc[t] = "u_exc" /\ pc'[t] = "idle") =>
          UNCHANGED <<stateTbl, history, seq>> /\ tx' = NoVal]_vars
  /\ [][started =>
          \/ UNCHANGED <<stateTbl>> /\ {r \in history' : r.type = "state"} = StateEntries
          \/ \E r \in history' \ history :
               /\ r.type = "state"
               /\ history' = history \cup {r}
               /\ ParseContent(r.content).state = RecordFields(CurrentRow')
               /\ r.ts = CurrentRow'.last_updated]_vars
\* An update raised after its UPDATE and its connection still holds the changed
\* record; a read holds LOCK and the committed record is the seeded one.
C15_Witness ==
  /\ last = "OperationalError"
  /\ \E t \in Threads : pc[t] = "u_exc" /\ dbWriter = t /\ tx.state # stateTbl
  /\ \E u \in Threads : pc[u] = "r_query" /\ lock = u
  /\ history = {}
  /\ RecordFields(CurrentRow) = RecordFields(SeedRow(""))

\* The positions between sqlite3.connect and conn.close (or the return that
\* leaves the function) of the five storage operations.
InsidePcs ==
  {"i_create", "i_count", "g_select", "u_select", "u_update", "u_insert", "u_commit",
   "a_insert", "r_query"}
Inside == {t \in Threads : pc[t] \in InsidePcs}
\* C16: at most one thread is inside a storage operation, and it holds LOCK.
C16_OneInside ==
  /\ Cardinality(Inside) <= 1
  /\ \A t \in Inside : lock = t
\* One thread is inside update_state_in_db while another call waits for LOCK.
C16_Witness ==
  \E t, u \in Threads :
    /\ pc[t] = "u_insert" /\ lock = t
    /\ pc[u] \in {"g_lock", "u_lock", "a_lock", "r_lock"}

\* The call of thread t has returned or raised.
Completed(t) == pc[t] \in {"idle", "u_exc"}
\* C17: a thread holds LOCK only inside a storage operation, the step that ends
\* an operation (by return or by raise) leaves LOCK free, and under fair
\* scheduling every started call completes: the calls made being finitely
\* many, from some point on every thread has returned or raised for good.
C17_EveryCallCompletes ==
  /\ [](\A t \in Threads : lock = t => pc[t] \in InsidePcs)
  /\ [][\A t \in Threads : (pc[t] \in InsidePcs /\ pc'[t] \notin InsidePcs) =>
          lock = t /\ lock' = NoThread]_vars
  /\ <>[](\A t \in Threads : Completed(t))
\* A call waits for LOCK while another call, which goes on to raise, holds it.
C17_Witness ==
  \E t, u \in Threads :
    /\ pc[t] = "u_update" /\ lock = t /\ NotNullFails(st[t])
    /\ pc[u] \in {"g_lock", "u_lock", "a_lock", "r_lock"}

Parseable(r) == JsonLoads(r.content).ok
\* The history with every unparseable content replaced by the text of {}.
Repaired(h) == {IF Parseable(r) THEN r ELSE [r EXCEPT !.content = <<"{", "}">>] : r \in h}
\* C18: whatever read_history is asked, it returns (never raises); a row whose
\* stored content is not parseable comes back with content {raw: the stored
\* text} and its id, type, who and ts; and the rows returned, their order and
\* every other item are those returned if the content were parseable.
C18_CorruptRowKept ==
  \A t \in Threads : pc[t] = "r_query" =>
    LET h == View(t).hist
    IN \A a \in ReadInputs(arg[t]) :
         LET res == ReadResult(t, a)
             fix == ReadOut(SelectHistory(Repaired(h), a.limit, a.types))
         IN /\ Len(res) = Len(fix)
            /\ \A i \in 1..Len(res) :
                 LET r == CHOOSE q \in h : q.id = res[i].id
                 IN /\ res[i].id = fix[i].id
                    /\ <<res[i].type, res[i].who, res[i].ts>> = <<r.type, r.who, r.ts>>
                    /\ IF Parseable(r) THEN res[i] = fix[i]
                       ELSE res[i].content = [raw |-> r.content]
\* A read holds LOCK over a history with an unparseable row and a parseable row
\* inserted after it.
C18_Witness ==
  \E t \in Threads :
    /\ pc[t] = "r_query" /\ lock = t
    /\ \E r, q \in history : ~Parseable(r) /\ Parseable(q) /\ r.id < q.id

\* C19 (as claimed): with a clock that never goes backwards, the timestamps of
\* the history entries are non-decreasing in id order.
C19_TsFollowsId ==
  \A a, b \in history : a.id < b.id => TimeOf(a.ts) <= TimeOf(b.ts)

CommPcs == {"a_ts", "a_lock", "a_insert"}
ReadOnlyPcs == {"g_lock", "g_select", "r_lock", "r_query"}
\* Thread t takes a step of a call whose positions are pcs (its first step
\* included).
StepOf(t, pcs) == pc'[t] # pc[t] /\ (pc[t] \in pcs \/ pc'[t] \in pcs)
\* C20: every step of POST /comm, get_state_from_db and read_history leaves the
\* state row (all five fields of the record) as it was, every step of
\* get_state_from_db and read_history leaves the history as it was too, and the
\* history holds one entry per committed update and per committed comm append.
C20_OnlyUpdateChangesRecord ==
  /\ [][\A t \in Threads :
          /\ StepOf(t, CommPcs \cup ReadOnlyPcs) => UNCHANGED stateTbl
          /\ StepOf(t, ReadOnlyPcs) => UNCHANGED <<history, seq, tx>>]_vars
  /\ [](Cardinality(history) = Len(applied) + Len(appended))
\* An update, a comm append and a get_state were made one after another: the
\* record is the updated one and the history has the two entries.
C20_Witness ==
  /\ AllIdle
  /\ last = "state"
  /\ Len(applied) = 1 /\ Len(appended) = 1
  /\ \E r, q \in history : r.type = "state" /\ q.type = "comm" /\ r.id < q.id
  /\ RecordFields(CurrentRow) = ParseContent(NewestState(history).content).state

====
